---- MODULE Spec2Model ----
(***************************************************************************)
(* Model of midpoint_displacement_2d (src/midpoint_displacement_2d.py).    *)
(*                                                                         *)
(* One behaviour is one call of the function.  The state is the function's *)
(* locals (size, heightmap, q, roughness), the position of control (pc)    *)
(* and history variables that record what the run has read and written.    *)
(* One Step is one iteration of the `while len(q) != 0` loop.              *)
(*                                                                         *)
(* heightmap is a float64 array in the source; every value stored in it is *)
(* an integer (randint results, floor divisions and sums of integers), so  *)
(* the model keeps the values as integers and // as floor division.        *)
(***************************************************************************)
EXTENDS Integers, Sequences, FiniteSets, TLC

VARIABLES
    pc,         \* "start" | "loop" | "done" | "TypeError" | "IndexError"
    n,          \* argument n
    size,       \* local size = 2**n + 1 (0 until computed)
    heightmap,  \* [<<row, col>> -> value]
    q,          \* the deque of (x0, y0, x1, y1, roughness)
    roughness,  \* the local `roughness`: the argument, then the value
                \* unpacked from the dequeued tuple, halved at line 74
    R0,         \* history: the roughness argument of the call
    seeded,     \* history: the cells assigned by lines 32-35
    written,    \* history: [cell -> number of stores made by the loop]
    readCells,  \* history: the cells read as corners (lines 54-57) so far
    touched,    \* history: the raw <<row, col>> indices used by the last iteration
    last,       \* history: the tuple dequeued by the last iteration and the
                \* corner values it read (<<>> before the first iteration)
    draws,      \* history: the five my_randint results of the last iteration
    noisy,      \* history: number of non-zero my_randint results so far
    nproc,      \* history: number of loop iterations completed
    processed   \* history: the tuples dequeued by completed iterations, in order

vars == <<pc, n, size, heightmap, q, roughness, R0, seeded, written,
          readCells, touched, last, draws, noisy, nproc, processed>>

(***************************************************************************)
(* Bounds of the exploration.                                              *)
(***************************************************************************)
MaxN == 2
MaxRoughness == 2
\* At most MaxNoisy of the my_randint results of one run are non-zero.
MaxNoisy == 1

\* Arguments explored: n = -1 (2**n is the float 0.5), n = 0, and 1..MaxN.
NValues == {0 - 1} \cup (0 .. MaxN)
\* Samples of the roughness argument: none, the least, and the largest explored.
RoughnessValues == {0, 1, MaxRoughness}
\* Samples of the four random.randint(0, 256) results of lines 32-35,
\* in the order top-left, top-right, bottom-left, bottom-right.
CornerSeeds == { <<0, 0, 0, 0>>, <<10, 20, 30, 40>>, <<256, 0, 1, 255>> }
\* No run of the program holds more tuples than this in q.
QueueCap == 4 ^ (MaxN + 1)

(***************************************************************************)
(* Helpers.                                                                *)
(***************************************************************************)
Region(x0, y0, x1, y1, r) == [x0 |-> x0, y0 |-> y0, x1 |-> x1, y1 |-> y1, roughness |-> r]

\* random.randint(lo, hi): any integer of lo..hi.
randint(lo, hi) == lo .. hi

\* Variant of my_randint: the lower end one too far.
my_randintLow(r) == randint(0 - r - 1, r)

\* Variant of my_randint: the upper end one too far.
my_randintWide(r) == randint(0 - r, r + 1)

\* my_randint(roughness), line 42-43.
my_randint(r) == randint(0 - r, r)

\* (y0 + y1) // 2 and (x0 + x1) // 2, lines 50-51.
Centre(a, b) == (a + b) \div 2

\* numpy indexing of an axis of length size: -size <= i < size, a negative
\* index counting from the end; anything else raises IndexError.
ValidIndex(i) == (0 - size) <= i /\ i < size
NormIndex(i) == IF i < 0 THEN i + size ELSE i
ValidCell(c) == ValidIndex(c[1]) /\ ValidIndex(c[2])
NormCell(c) == <<NormIndex(c[1]), NormIndex(c[2])>>

\* The four cells read at lines 54-57: TL, TR, BL, BR.
CornerCells(reg) ==
    << <<reg.y0, reg.x0>>, <<reg.y0, reg.x1>>, <<reg.y1, reg.x0>>, <<reg.y1, reg.x1>> >>

\* Variant of MidpointCells: the third store goes to (y0, x0) instead of (y0, cx).
MidpointCellsTopAtCorner(reg) ==
    LET cy == Centre(reg.y0, reg.y1)
        cx == Centre(reg.x0, reg.x1)
    IN << <<cy, reg.x0>>, <<cy, reg.x1>>, <<reg.y0, reg.x0>>, <<reg.y1, cx>>, <<cy, cx>> >>

\* Variant of MidpointCells: the fifth store repeats the index of the second,
\* so the centre is never stored.
MidpointCellsNoCentre(reg) ==
    LET cy == Centre(reg.y0, reg.y1)
        cx == Centre(reg.x0, reg.x1)
    IN << <<cy, reg.x0>>, <<cy, reg.x1>>, <<reg.y0, cx>>, <<reg.y1, cx>>, <<cy, reg.x1>> >>

\* The five cells stored at lines 60-70, in program order:
\* left, right, top, bottom, centre.
MidpointCells(reg) ==
    LET cy == Centre(reg.y0, reg.y1)
        cx == Centre(reg.x0, reg.x1)
    IN << <<cy, reg.x0>>, <<cy, reg.x1>>, <<reg.y0, cx>>, <<reg.y1, cx>>, <<cy, cx>> >>

\* Variant of MidpointValues: the right midpoint averages top_left with
\* bottom_right instead of top_right.
MidpointValuesRightFromDiagonal(c, e) ==
    << (c[1] + c[3]) \div 2 + e[1],
       (c[1] + c[4]) \div 2 + e[2],
       (c[1] + c[2]) \div 2 + e[3],
       (c[3] + c[4]) \div 2 + e[4],
       (c[1] + c[3] + c[2] + c[4]) \div 4 + e[5] >>

\* Variant of MidpointValues: the left midpoint averages top_left with
\* top_right instead of bottom_left.
MidpointValuesLeftFromTop(c, e) ==
    << (c[1] + c[2]) \div 2 + e[1],
       (c[2] + c[4]) \div 2 + e[2],
       (c[1] + c[2]) \div 2 + e[3],
       (c[3] + c[4]) \div 2 + e[4],
       (c[1] + c[3] + c[2] + c[4]) \div 4 + e[5] >>

\* The five values stored at lines 60-70 from the corner values c = <<TL, TR, BL, BR>>
\* and the noise e, in program order.
MidpointValues(c, e) ==
    << (c[1] + c[3]) \div 2 + e[1],
       (c[2] + c[4]) \div 2 + e[2],
       (c[1] + c[2]) \div 2 + e[3],
       (c[3] + c[4]) \div 2 + e[4],
       (c[1] + c[3] + c[2] + c[4]) \div 4 + e[5] >>

\* Variants of Subdivides: the threshold off by one, and no threshold.
SubdividesFromTwo(reg) == reg.y1 - reg.y0 >= 2
SubdividesAlways(reg) == reg.y1 - reg.y0 > 0

\* Variant of Subdivides: the threshold one level too high.
SubdividesFromFour(reg) == reg.y1 - reg.y0 > 4

\* Line 73.
Subdivides(reg) == reg.y1 - reg.y0 > 2

\* Variant of Halve: rounds up.
HalveUp(r) == (r + 1) \div 2

\* Line 74.
Halve(r) == r \div 2

\* Variant of Children: the third quadrant appended before the second.
ChildrenThirdFirst(reg) ==
    LET cy == Centre(reg.y0, reg.y1)
        cx == Centre(reg.x0, reg.x1)
        r  == Halve(reg.roughness)
    IN << Region(reg.x0, reg.y0, cx, cy, r),
          Region(reg.x0, cy, cx, reg.y1, r),
          Region(cx, reg.y0, reg.x1, cy, r),
          Region(cx, cy, reg.x1, reg.y1, r) >>

\* Variant of Children: the second tuple ends at y1 instead of cy.
ChildrenTallSecond(reg) ==
    LET cy == Centre(reg.y0, reg.y1)
        cx == Centre(reg.x0, reg.x1)
        r  == Halve(reg.roughness)
    IN << Region(reg.x0, reg.y0, cx, cy, r),
          Region(cx, reg.y0, reg.x1, reg.y1, r),
          Region(reg.x0, cy, cx, reg.y1, r),
          Region(cx, cy, reg.x1, reg.y1, r) >>

\* Lines 84-87: the four tuples appended, in order.
Children(reg) ==
    LET cy == Centre(reg.y0, reg.y1)
        cx == Centre(reg.x0, reg.x1)
        r  == Halve(reg.roughness)
    IN << Region(reg.x0, reg.y0, cx, cy, r),
          Region(cx, reg.y0, reg.x1, cy, r),
          Region(reg.x0, cy, cx, reg.y1, r),
          Region(cx, cy, reg.x1, reg.y1, r) >>

\* Variant of RootRegion: the far corner at size instead of size - 1.
RootRegionToSize(sz, r) == Region(0, 0, sz, sz, r)

\* Line 40: the initial square.
RootRegion(sz, r) == Region(0, 0, sz - 1, sz - 1, r)

\* Variant of append: the tuples go to the left end of the deque.
appendleft(s, tuples) == tuples \o s

\* q.append(...) x 4, lines 84-87: the tuples go to the right end of the deque.
append(s, tuples) == s \o tuples

\* q.popleft(), line 47: what is left of the deque.
popleft(s) == Tail(s)

\* The stores cells[1..k] := vals[1..k] applied in program order.
RECURSIVE Store(_, _, _, _)
Store(h, cells, vals, k) ==
    IF k = 0 THEN h
    ELSE [Store(h, cells, vals, k - 1) EXCEPT ![NormCell(cells[k])] = vals[k]]

\* The store counts after the stores cells[1..k].
RECURSIVE Count(_, _, _)
Count(w, cells, k) ==
    IF k = 0 THEN w
    ELSE [Count(w, cells, k - 1) EXCEPT ![NormCell(cells[k])] = @ + 1]

\* Number of stores of lines 60-70 that complete: 5, or the ones before the
\* first store whose index raises IndexError.
Completed(cells) ==
    IF \A k \in 1 .. 5 : ValidCell(cells[k]) THEN 5
    ELSE (CHOOSE k \in 1 .. 5 :
            /\ ~ValidCell(cells[k])
            /\ \A j \in 1 .. (k - 1) : ValidCell(cells[j])) - 1

NonZero(e) == Cardinality({i \in DOMAIN e : e[i] # 0})

\* The results of the five my_randint(r) calls of one iteration, lines 60-70:
\* each any value my_randint(r) can return, at most `budget` of them non-zero
\* (the set {e \in [1 .. 5 -> my_randint(r)] : NonZero(e) <= budget}, built
\* from the positions S of the non-zero results).
Draws(r, budget) ==
    UNION { { [i \in 1 .. 5 |-> IF i \in S THEN f[i] ELSE 0] :
                f \in [S -> my_randint(r) \ {0}] } :
            S \in {T \in SUBSET (1 .. 5) : Cardinality(T) <= budget} }

(***************************************************************************)
(* The call.                                                               *)
(***************************************************************************)
Init ==
    /\ pc = "start"
    /\ n \in NValues
    /\ roughness \in RoughnessValues
    /\ R0 = roughness
    /\ size = 0
    /\ heightmap = << >>
    /\ q = << >>
    /\ seeded = {}
    /\ written = << >>
    /\ readCells = {}
    /\ touched = {}
    /\ last = << >>
    /\ draws = << >>
    /\ noisy = 0
    /\ nproc = 0
    /\ processed = << >>

\* Lines 28-40 with n >= 0: allocate, seed the corners, enqueue the initial square.
Create ==
    /\ pc = "start"
    /\ n >= 0
    /\ \E s \in CornerSeeds :
         LET sz == 2 ^ n + 1
             cells == (0 .. sz - 1) \X (0 .. sz - 1)
             zeros == [c \in cells |-> 0]
             corners == << <<0, 0>>, <<0, sz - 1>>, <<sz - 1, 0>>, <<sz - 1, sz - 1>> >>
         IN /\ size' = sz
            /\ heightmap' = [[[[zeros EXCEPT ![corners[1]] = s[1]]
                                      EXCEPT ![corners[2]] = s[2]]
                                      EXCEPT ![corners[3]] = s[3]]
                                      EXCEPT ![corners[4]] = s[4]]
            /\ seeded' = {corners[i] : i \in 1 .. 4}
            /\ written' = [c \in cells |-> 0]
            /\ q' = << RootRegion(sz, roughness) >>
    /\ pc' = "loop"
    /\ UNCHANGED <<n, roughness, R0, readCells, touched, last, draws, noisy, nproc,
                   processed>>

\* Lines 28-29 with n < 0: 2**n is a float, np.zeros((size, size)) raises TypeError.
CreateFails ==
    /\ pc = "start"
    /\ n < 0
    /\ pc' = "TypeError"
    /\ UNCHANGED <<n, size, heightmap, q, roughness, R0, seeded, written,
                   readCells, touched, last, draws, noisy, nproc, processed>>

\* Lines 47-87: the body of the loop for the dequeued tuple reg, rest being
\* what is left of the deque.  cc and mc are the indices of the corners and
\* midpoints of reg, c the corner values read at lines 54-57, e the five
\* results of my_randint, vals the five values stored and k the number of
\* stores that complete.
Iteration(reg, rest) ==
    /\ \E cc \in {CornerCells(reg)}, mc \in {MidpointCells(reg)} :
          IF \E i \in 1 .. 4 : ~ValidCell(cc[i])
          THEN \* a corner read raises IndexError
               /\ pc' = "IndexError"
               /\ q' = rest
               /\ roughness' = reg.roughness
               /\ touched' = {cc[i] : i \in 1 .. 4}
               /\ last' = [region |-> reg, corners |-> << >>]
               /\ UNCHANGED <<heightmap, written, readCells, draws, noisy, nproc,
                              processed>>
          ELSE \E c \in {[i \in 1 .. 4 |-> heightmap[NormCell(cc[i])]]},
                  k \in {Completed(mc)},
                  e \in Draws(reg.roughness, MaxNoisy - noisy) :
               \E vals \in {MidpointValues(c, e)} :
                  /\ heightmap' = Store(heightmap, mc, vals, k)
                  /\ written' = Count(written, mc, k)
                  /\ readCells' = readCells \cup {NormCell(cc[i]) : i \in 1 .. 4}
                  /\ touched' = {cc[i] : i \in 1 .. 4} \cup {mc[i] : i \in 1 .. 5}
                  /\ last' = [region |-> reg, corners |-> c]
                  /\ draws' = e
                  /\ noisy' = noisy + NonZero(e)
                  /\ IF k < 5
                     THEN /\ pc' = "IndexError"
                          /\ q' = rest
                          /\ roughness' = reg.roughness
                          /\ nproc' = nproc
                          /\ processed' = processed
                     ELSE /\ pc' = "loop"
                          /\ nproc' = nproc + 1
                          /\ processed' = Append(processed, reg)
                          /\ IF Subdivides(reg)
                             THEN /\ roughness' = Halve(reg.roughness)
                                  /\ q' = append(rest, Children(reg))
                             ELSE /\ roughness' = reg.roughness
                                  /\ q' = rest
    /\ UNCHANGED <<n, size, R0, seeded>>

\* Lines 45-87: one iteration of the loop, the tuple taken from the left
\* end of the deque (line 47).
Step ==
    /\ pc = "loop"
    /\ q # << >>
    /\ Len(q) <= QueueCap
    /\ \E reg \in {Head(q)}, rest \in {popleft(q)} : Iteration(reg, rest)

\* q.pop(): what is left of the deque when the tuple at its right end is taken.
pop(s) == SubSeq(s, 1, Len(s) - 1)

\* The loop with the deque drained depth-first: line 47 reads q.pop() instead
\* of q.popleft(); everything else as in Step.
StepLifo ==
    /\ pc = "loop"
    /\ q # << >>
    /\ Len(q) <= QueueCap
    /\ \E reg \in {q[Len(q)]}, rest \in {pop(q)} : Iteration(reg, rest)

\* Lines 45 and 89: the queue is empty, the function returns heightmap.
Return ==
    /\ pc = "loop"
    /\ q = << >>
    /\ pc' = "done"
    /\ UNCHANGED <<n, size, heightmap, q, roughness, R0, seeded, written,
                   readCells, touched, last, draws, noisy, nproc, processed>>

Next == Create \/ CreateFails \/ Step \/ Return

Spec == Init /\ [][Next]_vars

\* Calls one subdivision level deeper than MaxN, with the two smallest
\* roughness arguments.
DeepInit ==
    /\ pc = "start"
    /\ n \in NValues \cup {MaxN + 1}
    /\ roughness \in {0, 1}
    /\ R0 = roughness
    /\ size = 0
    /\ heightmap = << >>
    /\ q = << >>
    /\ seeded = {}
    /\ written = << >>
    /\ readCells = {}
    /\ touched = {}
    /\ last = << >>
    /\ draws = << >>
    /\ noisy = 0
    /\ nproc = 0
    /\ processed = << >>

DeepSpec == DeepInit /\ [][Next]_vars

\* The depth-first variant of the loop.
NextLifo == Create \/ CreateFails \/ StepLifo \/ Return

LifoSpec == DeepInit /\ [][NextLifo]_vars

\* The call is one sequential thread: a statement that can run does run.
LiveSpec == Init /\ [][Next]_vars /\ WF_vars(Next)

(***************************************************************************)
(* Vocabulary of the properties.                                           *)
(***************************************************************************)
Running == pc \in {"loop", "done", "IndexError"}
Cells == DOMAIN written
Assigned(c) == c \in seeded \/ written[c] > 0
Side(reg) == reg.x1 - reg.x0
IsPowerOfTwo(k) == \E j \in 0 .. 8 : k = 2 ^ j
\* The largest power of two dividing the coordinate i of a grid of side
\* 2^n + 1; 0 and 2^n both give 2^n.
RECURSIVE Stride(_)
Stride(i) == IF i = 0 THEN 2 ^ n
             ELSE IF i % 2 = 1 THEN 1
             ELSE 2 * Stride(i \div 2)
OnBorder(c) == c[1] \in {0, size - 1} \/ c[2] \in {0, size - 1}

C2_WrittenExactlyOnce ==
    (n >= 1 /\ Running) =>
        \A c \in Cells :
            /\ written[c] <= 1
            /\ (pc = "done" /\ c \notin seeded) => written[c] = 1

\* Stores a finished run makes to cell c: none to a seeded corner, two to
\* an edge midpoint inside the grid (it is the right or bottom midpoint of
\* one region and the left or top midpoint of its neighbour of the same
\* depth), one to a region centre or an edge midpoint on the grid border.
ExpectedWrites(c) ==
    IF c \in seeded THEN 0
    ELSE IF OnBorder(c) THEN 1
    ELSE IF Stride(c[1]) = Stride(c[2]) THEN 1
    ELSE 2

(***************************************************************************)
(* C2 amended: for n >= 1 every non-corner cell is stored to once or       *)
(* twice and never more: at return exactly twice when it is an edge        *)
(* midpoint strictly inside the grid, exactly once otherwise; the seeded   *)
(* corners are never stored to.                                            *)
(***************************************************************************)
C2_WrittenOnceOrTwice ==
    (n >= 1 /\ Running) =>
        \A c \in Cells :
            /\ written[c] <= 2
            /\ written[c] <= ExpectedWrites(c)
            /\ pc = "done" => written[c] = ExpectedWrites(c)

\* A finished 5x5 run in which cell (1, 2) was stored to twice.
C2_Witness ==
    /\ n = 2 /\ pc = "done"
    /\ written[<<1, 2>>] = 2
    /\ written[<<1, 1>>] = 1

(***************************************************************************)
(* C3: for n >= 1 the loop terminates: the call reaches the return with    *)
(* the queue empty.                                                        *)
(***************************************************************************)
C3_Terminates == (pc = "start" /\ n >= 1) ~> (pc = "done" /\ q = << >>)

\* A 5x5 run has returned after processing the initial square and its
\* four quadrants.
C3_Witness == pc = "done" /\ n = 2 /\ nproc = 5 /\ q = << >>

(***************************************************************************)
(* C4: for n >= 1, an iteration that processes (x0, y0, x1, y1, r) with    *)
(* corner values TL, TR, BL, BR leaves the grid equal to the old grid      *)
(* except at the five midpoints, which hold floor((TL+BL)/2)+e1 (left),    *)
(* floor((TR+BR)/2)+e2 (right), floor((TL+TR)/2)+e3 (top),                 *)
(* floor((BL+BR)/2)+e4 (bottom) and floor((TL+BL+TR+BR)/4)+e5 (centre),    *)
(* each e_i one of the five draws of the iteration, with -r <= e_i <= r.   *)
(***************************************************************************)
C4_FiveMidpoints ==
    [][ (n >= 1 /\ pc = "loop" /\ q # << >> /\ nproc' = nproc + 1) =>
          LET x0 == Head(q).x0
              y0 == Head(q).y0
              x1 == Head(q).x1
              y1 == Head(q).y1
              r  == Head(q).roughness
              cx == (x0 + x1) \div 2
              cy == (y0 + y1) \div 2
              TL == heightmap[<<y0, x0>>]
              TR == heightmap[<<y0, x1>>]
              BL == heightmap[<<y1, x0>>]
              BR == heightmap[<<y1, x1>>]
          IN /\ DOMAIN draws' = 1 .. 5
             /\ \A i \in 1 .. 5 : (0 - r) <= draws'[i] /\ draws'[i] <= r
             /\ heightmap' =
                  [c \in DOMAIN heightmap |->
                     IF c = <<cy, x0>> THEN (TL + BL) \div 2 + draws'[1]
                     ELSE IF c = <<cy, x1>> THEN (TR + BR) \div 2 + draws'[2]
                     ELSE IF c = <<y0, cx>> THEN (TL + TR) \div 2 + draws'[3]
                     ELSE IF c = <<y1, cx>> THEN (BL + BR) \div 2 + draws'[4]
                     ELSE IF c = <<cy, cx>> THEN (TL + BL + TR + BR) \div 4 + draws'[5]
                     ELSE heightmap[c]]
      ]_vars

\* A quadrant of the 5x5 grid seeded 10, 20, 30, 40 has been processed
\* with draws that are not all equal.
C4_Witness ==
    /\ n = 2 /\ nproc >= 2 /\ heightmap[<<0, 0>>] = 10
    /\ \E i, j \in 1 .. 5 : draws[i] # draws[j]

\* The value the cell c of a noise-free grid h holds: the floor average of
\* the two ends of the edge it is the midpoint of, or of the four corners
\* of the square it is the centre of.
Interpolated(h, c) ==
    LET row == c[1]
        col == c[2]
        s == IF Stride(row) < Stride(col) THEN Stride(row) ELSE Stride(col)
    IN IF Stride(row) = Stride(col)
       THEN (h[<<row - s, col - s>>] + h[<<row + s, col - s>>]
             + h[<<row - s, col + s>>] + h[<<row + s, col + s>>]) \div 4
       ELSE IF Stride(row) < Stride(col)
       THEN (h[<<row - s, col>>] + h[<<row + s, col>>]) \div 2
       ELSE (h[<<row, col - s>>] + h[<<row, col + s>>]) \div 2

(***************************************************************************)
(* C5: with roughness 0 and n >= 1 every non-corner cell of the returned   *)
(* grid is the floor average of the ends of its edge or of the corners of  *)
(* its square; n = 1 seeded 10, 20, 30, 40 returns centre 25, top 15,      *)
(* bottom 35, left 20, right 30 after exactly one iteration; n = 2 seeded  *)
(* with zeros returns the all-zero 5x5 grid.                               *)
(***************************************************************************)
C5_NoNoiseInterpolates ==
    (pc = "done" /\ n >= 1 /\ R0 = 0) =>
        /\ \A c \in Cells \ seeded : heightmap[c] = Interpolated(heightmap, c)
        /\ (n = 1 /\ heightmap[<<0, 0>>] = 10 /\ heightmap[<<0, 2>>] = 20
                  /\ heightmap[<<2, 0>>] = 30 /\ heightmap[<<2, 2>>] = 40) =>
              /\ heightmap[<<1, 1>>] = 25
              /\ heightmap[<<0, 1>>] = 15
              /\ heightmap[<<2, 1>>] = 35
              /\ heightmap[<<1, 0>>] = 20
              /\ heightmap[<<1, 2>>] = 30
              /\ nproc = 1
        /\ (n = 2 /\ \A c \in seeded : heightmap[c] = 0) =>
              /\ Cells = (0 .. 4) \X (0 .. 4)
              /\ \A c \in Cells : heightmap[c] = 0

\* The 5x5 grid seeded 10, 20, 30, 40 has been returned with roughness 0.
C5_Witness ==
    /\ pc = "done" /\ n = 2 /\ R0 = 0
    /\ heightmap[<<0, 0>>] = 10 /\ heightmap[<<4, 4>>] = 40
    /\ heightmap[<<2, 2>>] = 25 /\ heightmap[<<1, 2>>] = 20

\* The tuples appended by the last iteration, when it subdivided.
LastChildren == SubSeq(q, Len(q) - 3, Len(q))
WellFormed(reg) ==
    /\ reg.x1 - reg.x0 = reg.y1 - reg.y0
    /\ IsPowerOfTwo(Side(reg))
    /\ 2 <= Side(reg) /\ Side(reg) <= 2 ^ n
    /\ (reg.x0 + reg.x1) % 2 = 0
    /\ (reg.y0 + reg.y1) % 2 = 0

(***************************************************************************)
(* C6: for n >= 1 every region in the queue and every region processed is  *)
(* square with a power-of-two side between 2 and 2^n and even x0 + x1 and  *)
(* y0 + y1, and the four regions a subdividing iteration appends have half *)
(* the side of the region it processed.                                    *)
(***************************************************************************)
C6_RegionsSquareHalving ==
    (n >= 1 /\ Running) =>
        /\ \A i \in DOMAIN q : WellFormed(q[i])
        /\ nproc >= 1 => WellFormed(last.region)
        /\ (nproc >= 1 /\ pc = "loop" /\ Side(last.region) > 2) =>
              /\ Len(q) >= 4
              /\ \A i \in 1 .. 4 : 2 * Side(LastChildren[i]) = Side(last.region)

\* The initial square of the 5x5 grid has been split into four squares of side 2.
C6_Witness ==
    /\ n = 2 /\ nproc = 1 /\ Len(q) = 4
    /\ Side(last.region) = 4 /\ Side(q[1]) = 2 /\ Side(q[4]) = 2

\* Subdivision depth of a region: 0 for the initial square.
Depth(reg) == n - (CHOOSE j \in 0 .. n : 2 ^ j = Side(reg))

(***************************************************************************)
(* C7: the four regions a subdividing iteration appends all carry          *)
(* floor(parent roughness / 2); every region of depth k carries            *)
(* floor(initial roughness / 2^k), which is never negative.                *)
(***************************************************************************)
C7_RoughnessHalves ==
    Running =>
        /\ \A i \in DOMAIN q :
              /\ q[i].roughness = R0 \div (2 ^ Depth(q[i]))
              /\ q[i].roughness >= 0
        /\ nproc >= 1 => last.region.roughness = R0 \div (2 ^ Depth(last.region))
        /\ (nproc >= 1 /\ pc = "loop" /\ Side(last.region) > 2) =>
              \A i \in 1 .. 4 :
                  LastChildren[i].roughness = last.region.roughness \div 2

\* A region of odd roughness has been split: 1 // 2 = 0.
C7_Witness ==
    /\ n = 2 /\ nproc = 1 /\ R0 = 1 /\ Len(q) = 4
    /\ last.region.roughness = 1 /\ q[1].roughness = 0 /\ q[4].roughness = 0

(***************************************************************************)
(* C9 as stated: a call with n < 1 fails while the grid is constructed:    *)
(* no region is ever enqueued or processed and no cell is ever assigned.   *)
(***************************************************************************)
C9_InvalidSizeRejected ==
    n < 1 =>
        /\ pc \in {"start", "TypeError"}
        /\ q = << >>
        /\ nproc = 0
        /\ seeded = {}
        /\ heightmap = << >>

(***************************************************************************)
(* C10: for n >= 1 every index used to read or store a cell of the grid    *)
(* lies in 0 .. size - 1 and no IndexError is raised.                      *)
(***************************************************************************)
C10_IndicesInBounds ==
    n >= 1 =>
        /\ pc # "IndexError"
        /\ \A c \in touched :
              /\ 0 <= c[1] /\ c[1] < size
              /\ 0 <= c[2] /\ c[2] < size

\* The bottom-right quadrant of the 5x5 grid has been processed: it reads
\* the last cell (4, 4) and stores to row 3 and column 3.
C10_Witness ==
    /\ n = 2 /\ nproc = 5
    /\ touched = { <<2, 2>>, <<2, 4>>, <<4, 2>>, <<4, 4>>,
                   <<3, 2>>, <<3, 4>>, <<2, 3>>, <<4, 3>>, <<3, 3>> }

(***************************************************************************)
(* C11: for n >= 1 the grid has side 2^n + 1 from its creation to the      *)
(* return, and at the return every one of its (2^n + 1)^2 cells has been   *)
(* assigned: the four corners by the seeding, every other cell by at       *)
(* least one store of the loop.                                            *)
(***************************************************************************)
C11_GridSideAndCoverage ==
    (n >= 1 /\ Running) =>
        /\ size = 2 ^ n + 1
        /\ DOMAIN heightmap = (0 .. 2 ^ n) \X (0 .. 2 ^ n)
        /\ pc = "done" =>
              \A c \in DOMAIN heightmap :
                  \/ c \in seeded /\ (c[1] \in {0, 2 ^ n} /\ c[2] \in {0, 2 ^ n})
                  \/ written[c] >= 1

\* A 5x5 grid has been returned: 25 cells, 4 seeded, 21 stored by the loop.
C11_Witness ==
    /\ pc = "done" /\ n = 2 /\ size = 5
    /\ Cardinality(DOMAIN heightmap) = 25
    /\ Cardinality({c \in DOMAIN heightmap : written[c] >= 1}) = 21

(***************************************************************************)
(* C12: regions are processed breadth-first: the depths of the tuples in   *)
(* the queue never decrease from the front to the back and span at most    *)
(* two consecutive depths, and no tuple in the queue is shallower than a   *)
(* region already processed, so every region of depth k has completed      *)
(* before a region of depth k + 1 is dequeued.                             *)
(***************************************************************************)
C12_BreadthFirst ==
    (n >= 1 /\ pc = "loop") =>
        /\ \A i \in 1 .. (Len(q) - 1) : Depth(q[i]) <= Depth(q[i + 1])
        /\ q # << >> => Depth(q[Len(q)]) - Depth(q[1]) <= 1
        /\ \A i \in 1 .. (Len(processed) - 1) :
               Depth(processed[i]) <= Depth(processed[i + 1])
        /\ (q # << >> /\ processed # << >>) =>
               Depth(processed[Len(processed)]) <= Depth(q[1])

\* In a 9x9 run the queue holds quadrants of depth 1 ahead of regions of depth 2.
C12_Witness ==
    /\ n = 3 /\ pc = "loop" /\ nproc = 3
    /\ Len(q) = 10
    /\ Side(q[1]) = 4 /\ Side(q[2]) = 4 /\ Side(q[3]) = 2 /\ Side(q[10]) = 2

Coords(reg) == <<reg.x0, reg.y0, reg.x1, reg.y1>>
CoordsOf(s) == [i \in 1 .. Len(s) |-> Coords(s[i])]
\* The 4^k squares of side 2^(n-k) that tile the grid.
Tiles(k) ==
    LET s == 2 ^ (n - k)
        origins == {s * j : j \in 0 .. (2 ^ k - 1)}
    IN {<<x, y, x + s, y + s>> : x \in origins, y \in origins}

(***************************************************************************)
(* C13: for n >= 1 an iteration on a region of side > 2 appends to the     *)
(* back of the queue exactly (x0,y0,cx,cy), (cx,y0,x1,cy), (x0,cy,cx,y1),  *)
(* (cx,cy,x1,y1) in that order, and one on a region of side 2 appends      *)
(* nothing; at the return the regions processed at each depth k < n are    *)
(* exactly the 4^k squares of side 2^(n-k) tiling the grid, none twice,    *)
(* (4^n - 1) / 3 regions in all.                                           *)
(***************************************************************************)
C13_QuadrantsAndTiling ==
    [][ n >= 1 =>
          /\ (pc = "loop" /\ q # << >> /\ nproc' = nproc + 1) =>
                LET x0 == Head(q).x0
                    y0 == Head(q).y0
                    x1 == Head(q).x1
                    y1 == Head(q).y1
                    cx == (x0 + x1) \div 2
                    cy == (y0 + y1) \div 2
                IN CoordsOf(q') =
                      CoordsOf(Tail(q)) \o
                        (IF x1 - x0 > 2
                         THEN << <<x0, y0, cx, cy>>, <<cx, y0, x1, cy>>,
                                 <<x0, cy, cx, y1>>, <<cx, cy, x1, y1>> >>
                         ELSE << >>)
          /\ pc' = "done" =>
                /\ Len(processed') = (4 ^ n - 1) \div 3
                /\ Cardinality({Coords(processed'[i]) : i \in DOMAIN processed'})
                      = Len(processed')
                /\ {Coords(processed'[i]) : i \in DOMAIN processed'}
                      = UNION {Tiles(k) : k \in 0 .. (n - 1)}
                /\ \A k \in 0 .. (n - 1) :
                      Cardinality(Tiles(k)) = 4 ^ k
      ]_vars

\* A 9x9 run has returned after 21 regions: 1 of side 8, 4 of side 4, 16 of side 2.
C13_Witness ==
    /\ pc = "done" /\ n = 3 /\ Len(processed) = 21
    /\ Coords(processed[1]) = <<0, 0, 8, 8>>
    /\ Coords(processed[3]) = <<4, 0, 8, 4>>
    /\ Coords(processed[21]) = <<6, 6, 8, 8>>

\* Half the side of the regions that store to cell c.
CellStride(c) == IF Stride(c[1]) < Stride(c[2]) THEN Stride(c[1]) ELSE Stride(c[2])

(***************************************************************************)
(* C14: for n >= 1 every store to a cell is made by a region of the one    *)
(* depth fixed by the cell's position, a cell is stored to at most twice,  *)
(* every store puts there the floor average of the cell's edge ends (or    *)
(* square corners) plus one draw of the storing iteration, and that        *)
(* average never changes once the cell has been stored to, so a second     *)
(* store adds its noise to the same average as the first.                  *)
(***************************************************************************)
C14_SameDepthSameAverage ==
    [][ (n >= 1 /\ pc = "loop" /\ q # << >> /\ nproc' = nproc + 1) =>
          \A c \in Cells :
              /\ written'[c] # written[c] =>
                    /\ written'[c] = written[c] + 1
                    /\ written'[c] <= 2
                    /\ 2 * CellStride(c) = Side(Head(q))
                    /\ \E i \in 1 .. 5 :
                          /\ (0 - Head(q).roughness) <= draws'[i]
                          /\ draws'[i] <= Head(q).roughness
                          /\ heightmap'[c] = Interpolated(heightmap, c) + draws'[i]
              /\ written[c] >= 1 =>
                    Interpolated(heightmap', c) = Interpolated(heightmap, c)
      ]_vars

\* Cell (1, 2) of a 5x5 grid has been stored twice, the second time with a
\* non-zero draw.
C14_Witness ==
    /\ n = 2 /\ pc = "done" /\ written[<<1, 2>>] = 2
    /\ heightmap[<<1, 2>>] # Interpolated(heightmap, <<1, 2>>)

(***************************************************************************)
(* C15: for n >= 1 no iteration of the loop stores to (0, 0),              *)
(* (0, size-1), (size-1, 0) or (size-1, size-1): from the seeding to the   *)
(* return these four cells keep the values the seeding gave them.          *)
(***************************************************************************)
C15_CornersKept ==
    [][ (n >= 1 /\ pc = "loop") =>
          \A c \in { <<0, 0>>, <<0, size - 1>>, <<size - 1, 0>>, <<size - 1, size - 1>> } :
              /\ heightmap'[c] = heightmap[c]
              /\ written[c] = 0
              /\ written'[c] = 0
      ]_vars

\* A 5x5 run seeded 10, 20, 30, 40 has returned after a non-zero draw.
C15_Witness ==
    /\ pc = "done" /\ n = 2 /\ noisy = 1
    /\ heightmap[<<0, 0>>] = 10 /\ heightmap[<<0, 4>>] = 20
    /\ heightmap[<<4, 0>>] = 30 /\ heightmap[<<4, 4>>] = 40

\* S_k: the sum of floor(R0 / 2^j) for j = 0 .. k.
RECURSIVE NoiseSum(_)
NoiseSum(k) == IF k < 0 THEN 0 ELSE R0 \div (2 ^ k) + NoiseSum(k - 1)
\* Depth of the regions that store to cell c.
RECURSIVE Log2(_)
Log2(k) == IF k <= 1 THEN 0 ELSE 1 + Log2(k \div 2)
CellDepth(c) == n - Log2(2 * CellStride(c))

C17_LifoCornersWritten ==
    (n >= 1 /\ pc = "loop") =>
        \A i \in DOMAIN q :
            \A j \in 1 .. 4 :
                /\ CornerCells(q[i])[j] \in Cells
                /\ Assigned(CornerCells(q[i])[j])

\* A depth-first 9x9 run: the bottom-right quadrant was processed second and
\* its own bottom-right quadrant third, while three quadrants of depth 1 wait.
C17_Witness ==
    /\ n = 3 /\ pc = "loop" /\ nproc = 3
    /\ Coords(processed[2]) = <<4, 4, 8, 8>>
    /\ Coords(processed[3]) = <<6, 6, 8, 8>>
    /\ Coords(q[1]) = <<0, 0, 4, 4>>
    /\ <<6, 6>> \in readCells /\ written[<<6, 6>>] = 1

====
